---- MODULE Spec2Model ----
(***************************************************************************)
(* Model of src/main.py: the Restore endpoint (filter_custom_fields), the  *)
(* per-field update executor (update_custom_field) and the normalizer      *)
(* (unescape_json_string).                                                 *)
(*                                                                         *)
(* Python values are tagged records [t |-> tag, v |-> payload]:            *)
(*   str   v = sequence of characters (one-character strings)              *)
(*   arr   v = sequence of values        (list)                            *)
(*   obj   v = sequence of <<key, value>> pairs, key a character sequence  *)
(*           (dict, in insertion order)                                    *)
(*   num   v = a natural number          (int)                             *)
(*   true / false / null / none          v = <<>>                          *)
(***************************************************************************)
EXTENDS Integers, Sequences, FiniteSets, TLC

VARIABLES
    request,        \* the inbound request body (request.get_json())
    pc,             \* position of filter_custom_fields
    fields,         \* the list the handler iterates (restore_fields.get('fields', []))
    idx,            \* index of the field whose update_custom_field call is running
    attempts,       \* requests.put calls made by the running update_custom_field
    n429,           \* how many of them were answered 429
    nexc,           \* how many of them raised a transport failure
    response,       \* the local variable `response` of update_custom_field
    last,           \* what the latest requests.put call produced
    slept,          \* the time.sleep calls of the latest loop iteration, in order
    exec,           \* how the latest update_custom_field call stands or ended
    outcome,        \* what the latest update_custom_field call returned
    calls,          \* per field position: requests.put calls made for it
    sent,           \* the PUT requests issued: url ids, credentials and payload
    update_results, \* the handler's update_results list
    reply,          \* what the handler returned: status and body
    snapshot,       \* the value the caller serialized into restore_fields
    nX, nK, nIn, nOut, nOut2, nPc   \* normalizer harness: value, depth, input, results

vars == <<request, pc, fields, idx, attempts, n429, nexc, response, last, slept, exec,
          outcome, calls, sent, update_results, reply, snapshot, nX, nK, nIn, nOut, nOut2, nPc>>

restoreVars == <<request, pc, fields, idx, attempts, n429, nexc, response, last, slept,
                 exec, outcome, calls, sent, update_results, reply, snapshot>>

normVars == <<nX, nK, nIn, nOut, nOut2, nPc>>

(***************************************************************************)
(* Python values                                                           *)
(***************************************************************************)
JStr(cs)  == [t |-> "str", v |-> cs]
JArr(xs)  == [t |-> "arr", v |-> xs]
JObj(ps)  == [t |-> "obj", v |-> ps]
JNum(n)   == [t |-> "num", v |-> n]
JTrue     == [t |-> "true", v |-> <<>>]
JFalse    == [t |-> "false", v |-> <<>>]
JNull     == [t |-> "null", v |-> <<>>]
None      == [t |-> "none", v |-> <<>>]

\* Python truthiness (`not v`, `all([...])`)
Truthy(x) ==
    CASE x.t = "str" -> Len(x.v) > 0
      [] x.t = "arr" -> Len(x.v) > 0
      [] x.t = "obj" -> Len(x.v) > 0
      [] x.t = "num" -> x.v # 0
      [] x.t = "true" -> TRUE
      [] OTHER -> FALSE

\* dict.get(key, default)
HasKey(o, k) == \E i \in 1..Len(o.v) : o.v[i][1] = k
DictGet(o, k, default) ==
    IF HasKey(o, k)
    THEN o.v[CHOOSE i \in 1..Len(o.v) : o.v[i][1] = k][2]
    ELSE default

\* d[k] = x on a dict kept in insertion order
DictSet(ps, k, x) ==
    IF \E i \in 1..Len(ps) : ps[i][1] = k
    THEN [i \in 1..Len(ps) |-> IF ps[i][1] = k THEN <<k, x>> ELSE ps[i]]
    ELSE Append(ps, <<k, x>>)

(***************************************************************************)
(* json.dumps                                                              *)
(***************************************************************************)
Digits == <<"0", "1", "2", "3", "4", "5", "6", "7", "8", "9">>
DigitVal(c) == (CHOOSE i \in 1..10 : Digits[i] = c) - 1
IsDigit(c) == \E i \in 1..10 : Digits[i] = c

RECURSIVE NatToChars(_)
NatToChars(n) ==
    IF n < 10 THEN <<Digits[n + 1]>>
    ELSE NatToChars(n \div 10) \o <<Digits[(n % 10) + 1]>>

EscapeChar(c) ==
    CASE c = "\"" -> <<"\\", "\"">>
      [] c = "\\" -> <<"\\", "\\">>
      [] c = "\n" -> <<"\\", "n">>
      [] c = "\t" -> <<"\\", "t">>
      [] OTHER -> <<c>>

\* the characters of a string, each escaped; halved to keep the recursion shallow
RECURSIVE EscapeChars(_)
EscapeChars(cs) ==
    IF cs = <<>> THEN <<>>
    ELSE IF Len(cs) = 1 THEN EscapeChar(cs[1])
    ELSE LET h == Len(cs) \div 2
         IN EscapeChars(SubSeq(cs, 1, h)) \o EscapeChars(SubSeq(cs, h + 1, Len(cs)))

QuoteChars(cs) == <<"\"">> \o EscapeChars(cs) \o <<"\"">>

RECURSIVE DumpChars(_), DumpItems(_, _), DumpPairs(_, _)
DumpChars(x) ==
    CASE x.t = "str" -> QuoteChars(x.v)
      [] x.t = "arr" -> <<"[">> \o DumpItems(x.v, 1) \o <<"]">>
      [] x.t = "obj" -> <<"{">> \o DumpPairs(x.v, 1) \o <<"}">>
      [] x.t = "num" -> NatToChars(x.v)
      [] x.t = "true" -> <<"t", "r", "u", "e">>
      [] x.t = "false" -> <<"f", "a", "l", "s", "e">>
      [] OTHER -> <<"n", "u", "l", "l">>
DumpItems(xs, i) ==
    IF i > Len(xs) THEN <<>>
    ELSE (IF i > 1 THEN <<",", " ">> ELSE <<>>) \o DumpChars(xs[i]) \o DumpItems(xs, i + 1)
DumpPairs(ps, i) ==
    IF i > Len(ps) THEN <<>>
    ELSE (IF i > 1 THEN <<",", " ">> ELSE <<>>)
         \o QuoteChars(ps[i][1]) \o <<":", " ">> \o DumpChars(ps[i][2])
         \o DumpPairs(ps, i + 1)

json_dumps(x) == JStr(DumpChars(x))

RECURSIVE Encode(_, _)
Encode(x, k) == IF k = 0 THEN x ELSE json_dumps(Encode(x, k - 1))

(***************************************************************************)
(* json.loads                                                              *)
(***************************************************************************)
Fail == [ok |-> FALSE, val |-> None, pos |-> 0]
Ok(x, p) == [ok |-> TRUE, val |-> x, pos |-> p]

IsWs(c) == c \in {" ", "\n", "\t", "\r"}

RECURSIVE SkipWs(_, _)
SkipWs(s, i) == IF i <= Len(s) /\ IsWs(s[i]) THEN SkipWs(s, i + 1) ELSE i

StartsAt(s, i, lit) ==
    /\ i + Len(lit) - 1 <= Len(s)
    /\ \A j \in 1..Len(lit) : s[i + j - 1] = lit[j]

Unescape(c) ==
    CASE c = "\"" -> "\""
      [] c = "\\" -> "\\"
      [] c = "/" -> "/"
      [] c = "n" -> "\n"
      [] c = "t" -> "\t"
      [] c = "r" -> "\r"
      [] OTHER -> ""

\* the backslashes that stand directly before position p, counted back to position i
RunFrom(p, stops) == p - 1 - (CHOOSE q \in stops : \A q2 \in stops : q2 <= q)
BackslashRun(s, i, p) ==
    RunFrom(p, {q \in (i - 1)..(p - 1) : q = i - 1 \/ s[q] # "\\"})

\* position p of a string body that starts at i follows an escaping backslash
Escaped(s, i, p) == BackslashRun(s, i, p) % 2 = 1

\* the characters of a string body from i up to its closing quote at e: a backslash
\* that is not itself escaped introduces an escape and is dropped, the character
\* after it is translated; an unknown escape or a raw control character is an error
StringBody(s, i, e, acc, kept) ==
    IF \E k \in 1..Len(kept) :
          IF Escaped(s, i, kept[k]) THEN Unescape(s[kept[k]]) = ""
          ELSE s[kept[k]] \in {"\n", "\t", "\r"}
    THEN Fail
    ELSE Ok(JStr(acc \o [k \in 1..Len(kept) |->
                           IF Escaped(s, i, kept[k]) THEN Unescape(s[kept[k]])
                           ELSE s[kept[k]]]),
            e + 1)

StringUpTo(s, i, e, acc) ==
    StringBody(s, i, e, acc,
               SelectSeq([k \in 1..(e - i) |-> i + k - 1],
                         LAMBDA p : ~(s[p] = "\\" /\ ~Escaped(s, i, p))))

StringEnds(s, i, acc, ends) ==
    IF ends = {} THEN Fail
    ELSE StringUpTo(s, i, CHOOSE j \in ends : \A j2 \in ends : j <= j2, acc)

\* the body of a string literal, from the character after the opening quote: it ends
\* at the first quote that is not escaped
ScanString(s, i, acc) ==
    StringEnds(s, i, acc, {j \in i..Len(s) : s[j] = "\"" /\ ~Escaped(s, i, j)})

RECURSIVE ScanNumber(_, _, _)
ScanNumber(s, i, acc) ==
    IF i <= Len(s) /\ IsDigit(s[i])
    THEN ScanNumber(s, i + 1, acc * 10 + DigitVal(s[i]))
    ELSE Ok(JNum(acc), i)

RECURSIVE ParseValue(_, _), ParseItems(_, _, _), ParseMembers(_, _, _)
\* after the value r of a list item, at the separator position j
ItemsNext(s, j, acc) ==
    IF j > Len(s) THEN Fail
    ELSE IF s[j] = "]" THEN Ok(JArr(acc), j + 1)
    ELSE IF s[j] = "," THEN ParseItems(s, SkipWs(s, j + 1), acc)
    ELSE Fail
ItemsGot(s, r, acc) ==
    IF ~r.ok THEN Fail ELSE ItemsNext(s, SkipWs(s, r.pos), Append(acc, r.val))
\* the items of a list, from the first character of an item
ParseItems(s, i, acc) == ItemsGot(s, ParseValue(s, i), acc)

\* after a member of a dict, at the separator position j
MembersNext(s, j, ps) ==
    IF j > Len(s) THEN Fail
    ELSE IF s[j] = "}" THEN Ok(JObj(ps), j + 1)
    ELSE IF s[j] = "," THEN ParseMembers(s, SkipWs(s, j + 1), ps)
    ELSE Fail
MembersGot(s, key, r, acc) ==
    IF ~r.ok THEN Fail ELSE MembersNext(s, SkipWs(s, r.pos), DictSet(acc, key, r.val))
MembersColon(s, key, c, acc) ==
    IF c > Len(s) \/ s[c] # ":" THEN Fail
    ELSE MembersGot(s, key, ParseValue(s, SkipWs(s, c + 1)), acc)
MembersKey(s, k, acc) ==
    IF ~k.ok THEN Fail ELSE MembersColon(s, k.val.v, SkipWs(s, k.pos), acc)
\* the members of a dict, from the opening quote of a key
ParseMembers(s, i, acc) ==
    IF i > Len(s) \/ s[i] # "\"" THEN Fail
    ELSE MembersKey(s, ScanString(s, i + 1, <<>>), acc)

\* a list or a dict from the first character j after its opening bracket
ListFrom(s, j) ==
    IF j <= Len(s) /\ s[j] = "]" THEN Ok(JArr(<<>>), j + 1) ELSE ParseItems(s, j, <<>>)
DictFrom(s, j) ==
    IF j <= Len(s) /\ s[j] = "}" THEN Ok(JObj(<<>>), j + 1) ELSE ParseMembers(s, j, <<>>)

ParseValue(s, i) ==
    IF i > Len(s) THEN Fail
    ELSE CASE s[i] = "\"" -> ScanString(s, i + 1, <<>>)
           [] s[i] = "[" -> ListFrom(s, SkipWs(s, i + 1))
           [] s[i] = "{" -> DictFrom(s, SkipWs(s, i + 1))
           [] s[i] = "0" -> Ok(JNum(0), i + 1)
           [] IsDigit(s[i]) /\ s[i] # "0" -> ScanNumber(s, i, 0)
           [] StartsAt(s, i, <<"t", "r", "u", "e">>) -> Ok(JTrue, i + 4)
           [] StartsAt(s, i, <<"f", "a", "l", "s", "e">>) -> Ok(JFalse, i + 5)
           [] StartsAt(s, i, <<"n", "u", "l", "l">>) -> Ok(JNull, i + 4)
           [] OTHER -> Fail

\* the whole text must be one value
WholeText(cs, r) == IF r.ok /\ SkipWs(cs, r.pos) = Len(cs) + 1 THEN r ELSE Fail

\* json.loads(x): TypeError for a non-string, JSONDecodeError for malformed or
\* trailing text; both are reported as ok = FALSE
json_loads(x) ==
    IF x.t # "str" THEN Fail ELSE WholeText(x.v, ParseValue(x.v, SkipWs(x.v, 1)))

(***************************************************************************)
(* unescape_json_string                                                    *)
(***************************************************************************)
RECURSIVE UnescapeLoop(_, _)
\* a bug variant: one decode, no loop
DecodedOnce(current, r) == IF r.ok THEN r.val ELSE current

\* the loop body after json.loads: return on an error or a non-string, else go round
Decoded(current, r) ==
    IF ~r.ok THEN current
    ELSE IF r.val.t = "str" THEN UnescapeLoop(current, r.val)
    ELSE r.val

\* the while loop, entered with the loop variables prev and current
UnescapeLoop(prev, current) ==
    IF prev = current THEN current ELSE Decoded(current, json_loads(current))

unescape_json_string(s) == UnescapeLoop(None, s)

\* the normalizer harness at rest
NormIdle ==
    /\ nX = None /\ nK = 0 /\ nIn = None /\ nOut = None /\ nOut2 = None /\ nPc = "off"

(***************************************************************************)
(* Keys and the requests tried                                             *)
(***************************************************************************)
K_locationId == <<"l", "o", "c", "a", "t", "i", "o", "n", "I", "d">>
K_access_token == <<"a", "c", "c", "e", "s", "s", "_", "t", "o", "k", "e", "n">>
K_version == <<"v", "e", "r", "s", "i", "o", "n">>
K_restore_fields == <<"r", "e", "s", "t", "o", "r", "e", "_", "f", "i", "e", "l", "d", "s">>
K_fields == <<"f", "i", "e", "l", "d", "s">>
K_fieldId == <<"f", "i", "e", "l", "d", "I", "d">>
K_fieldName == <<"f", "i", "e", "l", "d", "N", "a", "m", "e">>
K_options == <<"o", "p", "t", "i", "o", "n", "s">>
K_Restore == <<"R", "e", "s", "t", "o", "r", "e">>
K_id == <<"i", "d">>
K_name == <<"n", "a", "m", "e">>
K_picklistOptions == <<"p", "i", "c", "k", "l", "i", "s", "t", "O", "p", "t", "i", "o", "n", "s">>
K_extra == <<"x">>

MaxFields == 2      \* fields in a snapshot
MaxEscape == 2      \* how many times the snapshot inside a request is JSON-encoded
MaxPuts == 7        \* requests.put calls the remote answers within one request

\* the i-th field of a snapshot: its id, name and option list
FieldIdOf(i) == JStr(<<"F", Digits[i + 1]>>)
FieldNameOf(i) == JStr(<<"N", " ", Digits[i + 1]>>)
OptionsOf(i) == JArr(<<JObj(<< <<<<"l">>, JStr(<<"o", "\"", Digits[i + 1]>>)>> >>)>>)

\* what a field may lack
Flaws == {"no_id", "no_name", "no_options", "empty_options"}

\* field i in the shape fields[].fieldId/fieldName/options
FieldA(i, flaw) ==
    JObj(   (IF flaw = "no_id" THEN <<>> ELSE << <<K_fieldId, FieldIdOf(i)>> >>)
         \o (IF flaw = "no_name" THEN <<>> ELSE << <<K_fieldName, FieldNameOf(i)>> >>)
         \o (IF flaw = "no_options" THEN <<>>
             ELSE IF flaw = "empty_options" THEN << <<K_options, JArr(<<>>)>> >>
             ELSE << <<K_options, OptionsOf(i)>> >>))

\* field i in the shape Restore[].id/name/picklistOptions
FieldB(i) ==
    JObj(<< <<K_id, FieldIdOf(i)>>, <<K_name, FieldNameOf(i)>>,
            <<K_picklistOptions, OptionsOf(i)>> >>)

\* the snapshot of n complete fields, in either shape
CompleteA(n) == JObj(<< <<K_fields, JArr([i \in 1..n |-> FieldA(i, "ok")])>> >>)
CompleteB(n) == JObj(<< <<K_Restore, JArr([i \in 1..n |-> FieldB(i)])>> >>)

\* snapshots of complete fields, and snapshots with a flawed field alone, before a
\* complete field and after one
SnapshotsA ==
    {CompleteA(n) : n \in 0..MaxFields}
    \cup {JObj(<< <<K_fields, JArr(<<FieldA(1, flaw)>>)>> >>) : flaw \in Flaws}
    \cup {JObj(<< <<K_fields, JArr(<<FieldA(1, "no_id"), FieldA(2, "ok")>>)>> >>),
          JObj(<< <<K_fields, JArr(<<FieldA(1, "ok"), FieldA(2, "no_options")>>)>> >>)}
SnapshotsB == {CompleteB(n) : n \in 0..MaxFields}
\* values that are no snapshot: a list, a mapping without a list, a list of non-mappings
SnapshotsOdd ==
    {JArr(<<FieldA(1, "ok")>>),
     JObj(<< <<K_fields, JNull>> >>),
     JObj(<< <<K_fields, JStr(<<>>)>> >>),
     JObj(<< <<K_fields, JArr(<<FieldA(1, "ok"), JStr(<<"F", "2">>)>>)>> >>)}

Present == JStr(<<"v">>)
Empty == JStr(<<>>)
Absent == None

\* the request object with the given values; an Absent key is left out
MkRequest(loc, tok, ver, rf, extra) ==
    JObj(   (IF loc = Absent THEN <<>> ELSE << <<K_locationId, loc>> >>)
         \o (IF tok = Absent THEN <<>> ELSE << <<K_access_token, tok>> >>)
         \o (IF ver = Absent THEN <<>> ELSE << <<K_version, ver>> >>)
         \o (IF rf = Absent THEN <<>> ELSE << <<K_restore_fields, rf>> >>)
         \o (IF extra THEN << <<K_extra, JNum(1)>> >> ELSE <<>>))

\* a body that request.get_json() cannot parse
BadJson == [t |-> "badjson", v |-> <<>>]

\* <<request, snapshot>> pairs
\* complete requests: every snapshot encoded once, the one-field ones at every depth
FullRequests ==
    {<<MkRequest(JStr(<<"L">>), JStr(<<"T">>), JStr(<<"V">>), Encode(snap, 1), FALSE), snap>>
        : snap \in SnapshotsA \cup SnapshotsB \cup SnapshotsOdd}
    \cup
    {<<MkRequest(JStr(<<"L">>), JStr(<<"T">>), JStr(<<"V">>), Encode(snap, k), FALSE), snap>>
        : snap \in {CompleteA(1), CompleteB(1)}, k \in 0..MaxEscape}
    \cup
    {<<MkRequest(JStr(<<"L">>), JStr(<<"T">>), JStr(<<"V">>), JStr(<<"a", "b">>), FALSE),
       JStr(<<"a", "b">>)>>}

\* requests with keys absent or empty
OneField == CompleteA(1)
PartialRequests ==
    {<<MkRequest(loc, tok, ver, rf, extra), IF rf.t = "str" /\ rf.v # <<>> THEN OneField ELSE None>>
        : loc \in {Absent, Empty, Present}, tok \in {Absent, Empty, Present},
          ver \in {Absent, Empty, Present}, rf \in {Absent, Empty, JNull, Encode(OneField, 1)},
          extra \in BOOLEAN}

\* bodies that are no request object, and a request wrapped in a list
OtherRequests ==
    {<<BadJson, None>>, <<JNull, None>>, <<JArr(<<>>), None>>, <<JStr(<<"x">>), None>>,
     <<JArr(<<JObj(<<>>)>>), None>>,
     <<JArr(<<MkRequest(Present, Absent, Present, Encode(OneField, 1), FALSE)>>), OneField>>,
     <<JArr(<<MkRequest(Present, Present, Present, Encode(OneField, 1), FALSE)>>), OneField>>}

Requests == FullRequests \cup PartialRequests \cup OtherRequests

(***************************************************************************)
(* The remote service                                                      *)
(***************************************************************************)
\* values of the x-ratelimit-remaining header; None: the header is absent
Remainings == {None, JStr(<<"4", "9">>), JStr(<<"5", "0">>), JStr(<<"l", "o", "w">>)}
Statuses == {200, 301, 429, 500}

\* what one requests.put call produces: a response, or a RequestException
RemoteResults ==
    {[exc |-> TRUE, status_code |-> 0, remaining |-> None]}
    \cup {[exc |-> FALSE, status_code |-> st, remaining |-> rem]
            : st \in Statuses, rem \in Remainings}

(***************************************************************************)
(* update_custom_field                                                     *)
(***************************************************************************)
\* int(text): ValueError unless the text is decimal digits
IntOf(cs) ==
    IF cs # <<>> /\ \A i \in 1..Len(cs) : IsDigit(cs[i])
    THEN ScanNumber(cs, 1, 0)
    ELSE Fail

\* int(response.headers.get('x-ratelimit-remaining', '1000'))
RemainingOf(r) ==
    IF r.remaining = None THEN IntOf(<<"1", "0", "0", "0">>) ELSE IntOf(r.remaining.v)

\* if remaining <= 50
RateLimitLow(remaining) == remaining <= 50

\* a bug variant: every status but 200 raises
RaisesForStatusStrict(status_code) == status_code # 200

\* response.raise_for_status() raises HTTPError
RaisesForStatus(status_code) == status_code >= 400 /\ status_code < 600

\* hasattr(response, 'status_code') and response.status_code == 429, in the handler
\* of RequestException; on an unbound `response` the test itself raises
Bound(resp) == resp # None

\* a bug variant: a 429 ends the call with a failure instead of a retry
RateLimitedGivesUp(new, cool) ==
    [next |-> "return", response |-> new, sleeps |-> cool,
     result |-> [success |-> FALSE, error |-> "HTTPError", status_code |-> new.status_code]]

\* if response.status_code == 429: sleep 10 and continue, after the cool-down `cool`
RateLimited(new, cool) ==
    [next |-> "continue", response |-> new, sleeps |-> cool \o <<10>>, result |-> None]

\* the loop iteration after requests.put returned the response `new` and the
\* cool-down `cool` was taken
StatusChecked(new, cool) ==
    IF new.status_code = 429 THEN RateLimited(new, cool)
    ELSE IF RaisesForStatus(new.status_code)
    THEN [next |-> "return", response |-> new, sleeps |-> cool,
          result |-> [success |-> FALSE, error |-> "HTTPError",
                      status_code |-> new.status_code]]
    ELSE [next |-> "return", response |-> new, sleeps |-> cool,
          result |-> [success |-> TRUE, status_code |-> new.status_code]]

\* the loop iteration after requests.put returned the response `new`, rem the
\* result of int() on its quota header
Responded(new, rem) ==
    IF ~rem.ok
    THEN [next |-> "ValueError", response |-> new, sleeps |-> <<>>, result |-> None]
    ELSE StatusChecked(new, IF RateLimitLow(rem.val.v) THEN <<10>> ELSE <<>>)

\* the handler of RequestException when requests.put raised
PutRaised(resp) ==
    IF ~Bound(resp)
    THEN [next |-> "UnboundLocalError", response |-> resp, sleeps |-> <<>>, result |-> None]
    ELSE IF resp.status_code = 429
    THEN [next |-> "continue", response |-> resp, sleeps |-> <<10>>, result |-> None]
    ELSE [next |-> "return", response |-> resp, sleeps |-> <<>>,
          result |-> [success |-> FALSE, error |-> "RequestException",
                      status_code |-> resp.status_code]]

\* one iteration of the while loop, `resp` the value of `response` on entry and r
\* what requests.put produces. next: "continue", "return" or the exception that leaves
\* update_custom_field; response: `response` afterwards; sleeps: the time.sleep calls
Iteration(resp, r) ==
    IF r.exc THEN PutRaised(resp)
    ELSE Responded([status_code |-> r.status_code], RemainingOf(r))

(***************************************************************************)
(* filter_custom_fields                                                    *)
(***************************************************************************)
Reply(status, kind, missing, data) ==
    [status |-> status, kind |-> kind, missing |-> missing, data |-> data]

\* request_data[0] for a list, else request_data; IndexError on an empty list
RequestJson(body) ==
    IF body.t = "badjson" THEN Fail
    ELSE IF body.t = "arr" THEN (IF body.v = <<>> THEN Fail ELSE Ok(body.v[1], 0))
    ELSE Ok(body, 0)

RequiredKeys == <<K_locationId, K_access_token, K_version, K_restore_fields>>

\* a bug variant: only the keys that are absent
MissingKeysAbsent(request_json) ==
    SelectSeq(RequiredKeys, LAMBDA k : ~HasKey(request_json, k))

\* [k for k, v in {...}.items() if not v]
MissingKeys(request_json) ==
    SelectSeq(RequiredKeys, LAMBDA k : ~Truthy(DictGet(request_json, k, None)))

\* what `for field in x` iterates: the items of a list, the characters of a string,
\* the keys of a dict; TypeError for anything else
Iterate(x) ==
    CASE x.t = "arr" -> Ok(x.v, 0)
      [] x.t = "str" -> Ok([i \in 1..Len(x.v) |-> JStr(<<x.v[i]>>)], 0)
      [] x.t = "obj" -> Ok([i \in 1..Len(x.v) |-> JStr(x.v[i][1])], 0)
      [] OTHER -> Fail

\* a bug variant: the options are read under the key of the other snapshot shape
PutRequestOtherKey(request_json, field) ==
    [location_id |-> DictGet(request_json, K_locationId, None),
     access_token |-> DictGet(request_json, K_access_token, None),
     version |-> DictGet(request_json, K_version, None),
     field_id |-> DictGet(field, K_fieldId, None),
     name |-> DictGet(field, K_fieldName, None),
     options |-> DictGet(field, K_picklistOptions, JArr(<<>>))]

\* the arguments of update_custom_field for a field
PutRequest(request_json, field) ==
    [location_id |-> DictGet(request_json, K_locationId, None),
     access_token |-> DictGet(request_json, K_access_token, None),
     version |-> DictGet(request_json, K_version, None),
     field_id |-> DictGet(field, K_fieldId, None),
     name |-> DictGet(field, K_fieldName, None),
     options |-> DictGet(field, K_options, JArr(<<>>))]

ResultEntry(field, result) ==
    [field_name |-> DictGet(field, K_fieldName, None),
     field_id |-> DictGet(field, K_fieldId, None),
     result |-> result]

Answer(status, kind, missing) ==
    [ok |-> FALSE, fields |-> <<>>, reply |-> Reply(status, kind, missing, <<>>)]

\* the try block up to the for loop, `it` what the loop would iterate
Iterable(it) ==
    IF ~it.ok THEN Answer(400, "Error processing restore_fields", <<>>)
    ELSE [ok |-> TRUE, fields |-> it.val, reply |-> None]
Normalized(restore_fields) ==
    Iterable(IF restore_fields.t = "obj"
             THEN Iterate(DictGet(restore_fields, K_fields, JArr(<<>>)))
             ELSE Fail)

\* the handler after request_json was obtained
Parsed(rj) ==
    IF ~rj.ok THEN Answer(400, "Invalid request: JSON parsing error", <<>>)
    ELSE IF ~Truthy(rj.val) THEN Answer(400, "Invalid request: Empty body", <<>>)
    ELSE IF rj.val.t # "obj" THEN Answer(500, "An unexpected error occurred", <<>>)
    ELSE IF MissingKeys(rj.val) # <<>>
    THEN Answer(400, "Missing required parameters", MissingKeys(rj.val))
    ELSE Normalized(unescape_json_string(DictGet(rj.val, K_restore_fields, None)))

\* filter_custom_fields from its entry to the for loop: the list to iterate, or the
\* response it returns before the loop
Intake(body) == Parsed(RequestJson(body))

\* the for loop arrives at position j with the results so far: it returns the 200
\* response after the last field, answers 400 when field.get fails on a field that
\* is no dict, and otherwise calls update_custom_field
EnterField(flds, j, results) ==
    /\ fields' = flds
    /\ update_results' = results
    /\ IF j > Len(flds)
       THEN /\ pc' = "done"
            /\ reply' = Reply(200, "updates", <<>>, [updates |-> results])
            /\ UNCHANGED <<idx, attempts, n429, nexc, response, last, slept, exec, outcome>>
       ELSE IF flds[j].t # "obj"
       THEN /\ pc' = "done"
            /\ reply' = Reply(400, "Error processing restore_fields", <<>>, <<>>)
            /\ UNCHANGED <<idx, attempts, n429, nexc, response, last, slept, exec, outcome>>
       ELSE /\ pc' = "put"
            /\ idx' = j
            /\ attempts' = 0 /\ n429' = 0 /\ nexc' = 0
            /\ response' = None /\ last' = None /\ slept' = <<>>
            /\ exec' = "running"
            /\ outcome' = None
            /\ reply' = reply

Started(in) ==
    IF ~in.ok
    THEN /\ pc' = "done"
         /\ reply' = in.reply
         /\ UNCHANGED <<fields, idx, attempts, n429, nexc, response, last, slept,
                        exec, outcome, calls, update_results>>
    ELSE /\ calls' = [i \in 1..Len(in.fields) |-> 0]
         /\ EnterField(in.fields, 1, <<>>)

\* filter_custom_fields up to its first requests.put call, or to its return when it
\* makes none
Receive ==
    /\ pc = "start"
    /\ UNCHANGED <<request, snapshot, sent>>
    /\ UNCHANGED normVars
    /\ Started(Intake(request))

RECURSIVE SumSeq(_, _)
SumSeq(f, i) == IF i > Len(f) THEN 0 ELSE f[i] + SumSeq(f, i + 1)

\* the requests.put calls made so far for the request
PutsMade == SumSeq(calls, 1)

\* the requests.put call produced r and the loop iteration went as `it`
Attempted(r, it) ==
    /\ calls' = [calls EXCEPT ![idx] = @ + 1]
    /\ sent' = sent \cup {PutRequest(RequestJson(request).val, fields[idx])}
    /\ attempts' = attempts + 1
    /\ n429' = IF ~r.exc /\ r.status_code = 429 THEN n429 + 1 ELSE n429
    /\ nexc' = IF r.exc THEN nexc + 1 ELSE nexc
    /\ response' = it.response
    /\ last' = r
    /\ slept' = it.sleeps
    /\ outcome' = it.result
    /\ IF it.next = "continue"
       THEN UNCHANGED <<pc, exec, reply>>
       ELSE IF it.next = "return"
       THEN /\ pc' = "collect"
            /\ exec' = "returned"
            /\ reply' = reply
       ELSE /\ pc' = "done"
            /\ exec' = it.next
            /\ reply' = Reply(400, "Error processing restore_fields", <<>>, <<>>)

\* one requests.put call of update_custom_field and the rest of that loop iteration:
\* the loop continues, update_custom_field returns, or an exception leaves it and
\* the handler answers 400
PutAttempt ==
    /\ pc = "put"
    /\ PutsMade < MaxPuts
    /\ UNCHANGED <<request, snapshot, fields, idx, update_results>>
    /\ UNCHANGED normVars
    /\ \E r \in RemoteResults : Attempted(r, Iteration(response, r))

\* a bug variant: the loop goes on without recording the outcome of the field
CollectDropping ==
    /\ pc = "collect"
    /\ UNCHANGED <<request, snapshot, calls, sent>>
    /\ UNCHANGED normVars
    /\ EnterField(fields, idx + 1, update_results)

\* the loop body after update_custom_field returned: the result is appended and the
\* loop goes on to the next field or the handler returns the 200 response
Collect ==
    /\ pc = "collect"
    /\ UNCHANGED <<request, snapshot, calls, sent>>
    /\ UNCHANGED normVars
    /\ EnterField(fields, idx + 1, Append(update_results, ResultEntry(fields[idx], outcome)))

Init ==
    /\ \E rs \in Requests : request = rs[1] /\ snapshot = rs[2]
    /\ pc = "start"
    /\ fields = <<>> /\ idx = 0
    /\ attempts = 0 /\ n429 = 0 /\ nexc = 0
    /\ response = None /\ last = None /\ slept = <<>>
    /\ exec = "idle"
    /\ outcome = None
    /\ calls = <<>>
    /\ sent = {}
    /\ update_results = <<>>
    /\ reply = None
    /\ NormIdle

Next == Receive \/ PutAttempt \/ Collect

Spec == Init /\ [][Next]_vars

(***************************************************************************)
(* Properties of update_custom_field                                       *)
(***************************************************************************)
\* the latest requests.put call was answered, with this status
Answered(status_code) == last # None /\ ~last.exc /\ last.status_code = status_code
AnsweredIn(lo, hi) ==
    last # None /\ ~last.exc /\ last.status_code >= lo /\ last.status_code <= hi
\* update_custom_field returned an outcome
Returned == exec = "returned" /\ outcome # None

\* C1: one call of update_custom_field never makes more PUT attempts than the
\* retry budget (3) plus the capped 429-driven retries (3).
AttemptsBounded == attempts <= 3 + 3

\* C2: a call whose every attempt was answered with a non-429 failure status
\* returns its failure outcome after exactly 3 attempts.
FailureAfterThreeAttempts ==
    (Returned /\ ~outcome.success /\ n429 = 0 /\ nexc = 0) => attempts = 3

TransportFailureYieldsFailure ==
    (last # None /\ last.exc) => (Returned /\ ~outcome.success)

(***************************************************************************)
(* Properties of filter_custom_fields                                      *)
(***************************************************************************)
AllDicts(flds) == \A i \in 1..Len(flds) : flds[i].t = "obj"

\* C5: a Restore call over n >= 1 fields ends with one outcome per field, in the
\* order of the fields, whatever the remote did.
RestoreCoversEveryField ==
    (pc = "done" /\ Len(fields) >= 1 /\ AllDicts(fields))
    => /\ reply.status = 200
       /\ Len(reply.data.updates) = Len(fields)
       /\ \A i \in 1..Len(fields) :
            /\ reply.data.updates[i].field_id = DictGet(fields[i], K_fieldId, None)
            /\ reply.data.updates[i].field_name = DictGet(fields[i], K_fieldName, None)

\* a field lacks its id, its name or a non-empty option list
Flawed(field) ==
    /\ field.t = "obj"
    /\ \/ ~Truthy(DictGet(field, K_fieldId, None))
       \/ ~Truthy(DictGet(field, K_fieldName, None))
       \/ ~Truthy(DictGet(field, K_options, JArr(<<>>)))

\* C6: no PUT is ever issued for a flawed field.
FlawedFieldNeverSent ==
    \A i \in 1..Len(fields) : Flawed(fields[i]) => calls[i] = 0

CountOf(updates, flag) ==
    Cardinality({i \in 1..Len(updates) : updates[i].result.success = flag})

\* C7: the 200 response carries total_processed, successful and failed, equal to the
\* number of fields and of the outcomes with success true and false.
ReplyCarriesCounts ==
    (pc = "done" /\ reply.status = 200)
    => /\ {"total_processed", "successful", "failed"} \subseteq DOMAIN reply.data
       /\ reply.data.total_processed = Len(fields)
       /\ reply.data.successful = CountOf(update_results, TRUE)
       /\ reply.data.failed = CountOf(update_results, FALSE)
       /\ reply.data.successful + reply.data.failed = reply.data.total_processed

\* the PUT request a complete field i of the snapshot calls for
ExpectedPut(request_json, i) ==
    [location_id |-> DictGet(request_json, K_locationId, None),
     access_token |-> DictGet(request_json, K_access_token, None),
     version |-> DictGet(request_json, K_version, None),
     field_id |-> FieldIdOf(i), name |-> FieldNameOf(i), options |-> OptionsOf(i)]

\* C8: when the handler has answered a request whose snapshot holds n complete
\* fields, in the shape Restore[] or fields[], exactly those n fields were pushed.
BothShapesPushed ==
    \A n \in 1..MaxFields :
        (pc = "done" /\ Intake(request).ok /\ snapshot \in {CompleteA(n), CompleteB(n)})
        => sent = {ExpectedPut(RequestJson(request).val, i) : i \in 1..n}

\* a value as the request schema allows it for a required key: a string or null
StringOrNull(x) == x.t \in {"str", "null"}
\* the required keys that are absent from the request or empty in it
AbsentOrEmpty(request_json) ==
    SelectSeq(RequiredKeys,
              LAMBDA k : \/ ~HasKey(request_json, k)
                         \/ DictGet(request_json, k, None) \in {JStr(<<>>), JNull})
\* the request object, with each required key absent, null or a string
IsRestoreRequest(body) ==
    /\ RequestJson(body).ok
    /\ RequestJson(body).val.t = "obj"
    /\ \A i \in 1..4 : LET k == RequiredKeys[i]
                       IN HasKey(RequestJson(body).val, k)
                          => StringOrNull(DictGet(RequestJson(body).val, k, None))
NoRemoteCall == sent = {} /\ \A i \in 1..Len(calls) : calls[i] = 0

ExceptionEscaped == pc = "done" /\ exec \in {"UnboundLocalError", "ValueError"}

\* C11: a request during which an exception escaped the per-field update loop is
\* answered with status 500, never with another status.
InternalFailureAnswered500 == ExceptionEscaped => reply.status = 500

\* C12: update_custom_field returns a success outcome only for a response whose
\* status is in 200..299; a 1xx or 3xx status never yields success = true.
SuccessOnlyFor2xx == (Returned /\ outcome.success) => AnsweredIn(200, 299)

\* the cool-down pauses of the latest loop iteration: its time.sleep calls without
\* the one of the 429 branch, which is reached when int() accepted the header
CoolDowns == Len(slept) - (IF Answered(429) /\ RemainingOf(last).ok THEN 1 ELSE 0)

\* the quota header of the latest response is present and reads as a number below 50
RemainingBelow50 ==
    /\ last.remaining # None
    /\ RemainingOf(last).ok
    /\ RemainingOf(last).val.v < 50

\* C13: after a response the cool-down pause is taken exactly when the quota header
\* is present with a value strictly below 50, whatever the status of the response.
CoolDownBelowFifty ==
    (last # None /\ ~last.exc)
    => /\ CoolDowns \in {0, 1}
       /\ CoolDowns = 1 <=> RemainingBelow50

\* the field positions for which a PUT was issued
AttemptedFields == {j \in 1..Len(calls) : calls[j] > 0}

\* C14: every PUT issued for a field, the first and every retry, is the same request:
\* the request's location id, access_token and version and the field's id, name and
\* option list as the snapshot gives them; a retry adds no different request.
SameRequestEveryAttempt ==
    /\ Cardinality(sent) <= Cardinality(AttemptedFields)
    /\ \A n \in 1..MaxFields :
          (snapshot = CompleteA(n) /\ Len(calls) = n)
          => sent = {ExpectedPut(RequestJson(request).val, i) : i \in AttemptedFields}

\* both fields of a two-field snapshot were retried and two requests were seen
SameRequestEveryAttemptWitness ==
    /\ snapshot = CompleteA(2) /\ Len(calls) = 2
    /\ calls[1] >= 3 /\ calls[2] >= 2
    /\ Cardinality(sent) = 2

\* C15: the loop goes on to another attempt only when the attempt just made was
\* answered 429, and a transport failure that follows a 429 ends the call with a
\* failure outcome.
RetryOnlyAfter429 ==
    /\ (pc = "put" /\ attempts > 0) => Answered(429)
    /\ (last # None /\ last.exc /\ n429 > 0) => (Returned /\ ~outcome.success)

\* C16: a request over well-formed fields that is answered with status 400 or 500
\* has no field recorded as pushed with a 2xx response.
NoErrorAfterPush ==
    (pc = "done" /\ AllDicts(fields) /\ reply.status \in {400, 500})
    => \A i \in 1..Len(update_results) :
         ~(/\ update_results[i].result.success
           /\ update_results[i].result.status_code \in 200..299)

\* a PUT is issued in this step
PutIssued == \E j \in 1..Len(calls) : calls'[j] > calls[j]

\* C17: every PUT is issued for the current field only, when each earlier field has
\* its outcome recorded and no later field has been attempted.
OneFieldAtATime ==
    [][PutIssued
       => /\ pc = "put"
          /\ Len(update_results) = idx - 1
          /\ \A j \in 1..Len(calls) :
                /\ calls'[j] # calls[j] => (j = idx /\ calls'[j] = calls[j] + 1)
                /\ j > idx => calls[j] = 0
                /\ j < idx => /\ update_results[j].field_id = DictGet(fields[j], K_fieldId, None)
                              /\ update_results[j].result # None]_vars

\* the second field is attempted after the first one was retried and has its outcome
OneFieldAtATimeWitness ==
    /\ Len(calls) = 2 /\ idx = 2
    /\ calls[1] >= 2 /\ calls[2] >= 1
    /\ Len(update_results) >= 1

(***************************************************************************)
(* Normalizer harness: unescape_json_string applied to bounded inputs      *)
(***************************************************************************)
MaxDepth == 3       \* how many times a structured value is JSON-encoded
MaxPlainLen == 3    \* length of the plain strings tried

RECURSIVE CharSeqs(_, _)
CharSeqs(alphabet, n) ==
    IF n = 0 THEN {<<>>}
    ELSE LET shorter == CharSeqs(alphabet, n - 1)
         IN shorter \cup {Append(cs, c) : cs \in shorter, c \in alphabet}

LeafChars == {"a", "\"", "\\"}
Leaves == {JStr(cs) : cs \in CharSeqs(LeafChars, 1)} \cup {JNum(7), JNull, JTrue}
NormKeys == {<<"a">>, <<"\"", "k">>}

\* structured values: lists of up to two leaves, one- and two-key mappings, one nesting
Structured ==
    {JArr(<<>>), JObj(<<>>)}
    \cup {JArr(<<x>>) : x \in Leaves}
    \cup {JArr(<<x, y>>) : x \in Leaves, y \in Leaves}
    \cup {JObj(<< <<k, x>> >>) : k \in NormKeys, x \in Leaves}
    \cup {JObj(<< <<k, JArr(<<x>>)>> >>) : k \in NormKeys, x \in Leaves}
    \cup {JArr(<<JObj(<< <<k, x>> >>)>>) : k \in NormKeys, x \in Leaves}
    \cup {JObj(<< <<<<"a">>, x>>, <<<<"b">>, y>> >>) : x \in Leaves, y \in Leaves}

PlainChars == {"a", "\"", "\\", "[", "]", "1", " "}
PlainStrings == {JStr(cs) : cs \in CharSeqs(PlainChars, MaxPlainLen)}

RestoreIdle ==
    /\ request = None /\ pc = "off" /\ fields = <<>> /\ idx = 0
    /\ attempts = 0 /\ n429 = 0 /\ nexc = 0 /\ response = None /\ last = None
    /\ slept = <<>> /\ exec = "idle" /\ outcome = None /\ calls = <<>> /\ sent = {}
    /\ update_results = <<>> /\ reply = None /\ snapshot = None

NormInit ==
    /\ \/ /\ nX \in Structured
          /\ nK \in 1..MaxDepth
       \/ /\ nX \in PlainStrings
          /\ nK = 0
    /\ nIn = Encode(nX, nK)
    /\ nOut = None
    /\ nOut2 = None
    /\ nPc = "in"
    /\ RestoreIdle

\* Normalize(input)
Normalize ==
    /\ nPc = "in"
    /\ nOut' = unescape_json_string(nIn)
    /\ nPc' = "out"
    /\ UNCHANGED <<nX, nK, nIn, nOut2>>
    /\ UNCHANGED restoreVars

\* Normalize applied to its own output
NormalizeAgain ==
    /\ nPc = "out"
    /\ nOut2' = unescape_json_string(nOut)
    /\ nPc' = "again"
    /\ UNCHANGED <<nX, nK, nIn, nOut>>
    /\ UNCHANGED restoreVars

NormNext == Normalize \/ NormalizeAgain

SpecNorm == NormInit /\ [][NormNext]_vars

\* C9: a structured value JSON-encoded 1..MaxDepth times is recovered by Normalize,
\* Normalize leaves its own result unchanged, and a string json.loads rejects is
\* returned as it came.
NormalizeRecovers ==
    /\ (nPc \in {"out", "again"} /\ nK >= 1) => nOut = nX
    /\ (nPc = "again" /\ nK >= 1) => nOut2 = nOut
    /\ (nPc \in {"out", "again"} /\ nK = 0 /\ ~json_loads(nIn).ok) => nOut = nIn

\* a mapping encoded three times has been normalized twice
NormalizeRecoversWitness ==
    /\ nPc = "again" /\ nK = 3 /\ nX.t = "obj" /\ Len(nX.v) = 2
    /\ nOut = nX /\ nOut2 = nX

\* a plain string that is not JSON has been normalized
NormalizePlainWitness ==
    nPc = "out" /\ nK = 0 /\ Len(nIn.v) = 3 /\ ~json_loads(nIn).ok /\ nOut = nIn

====
